---- MODULE Spec2Model ----
(***************************************************************************)
(* A model of the incache eviction-and-expiration engine: the Manual cache *)
(* (mcache.go), the LRU cache (lru_cache.go, the NewLRU snapshot) and the  *)
(* LFU cache (lfu_cache.go).  Every public operation holds the cache's     *)
(* mutex from entry to return, so an operation is one atomic step.  Go's   *)
(* map iteration order is unspecified: an operation that ranges over a map *)
(* is modelled by the set of all outcomes an iteration order can produce.  *)
(***************************************************************************)
EXTENDS Integers, Sequences, FiniteSets, TLC

\* Bounds of the model.
NumKeys == 3
NumVals == 2
MaxCap == 2
MaxTime == 2
MaxTtl == 1
MaxFreq == 2
SrcMax == 1
MaxOverfill == 1
MaxRunGets == 1
XferMax == 2

Keys == 1..NumKeys
Vals == 1..NumVals
Caps == 0..MaxCap
\* time.Duration arguments: negative, zero and positive timeouts.
Ttls == {0 - 1, 0} \cup (1..MaxTtl)
\* Sweep intervals handed to the builder: disabled (0) or enabled (1).
Intervals == {0 - 1, 0, 1}

\* The zero value of V, returned by Get when nothing is found.
ZeroV == 0
\* expireAt == nil: the entry has no expiration.
NilTime == -1
\* Ghost: the write record of a key that is not stored.
NoWrite == [value |-> ZeroV, expireAt |-> NilTime, setSeen |-> FALSE]

EvictTypes == {"manual", "lru", "lfu"}

\* The only EvictType constant the package declares.
Manual == "manual"

VARIABLES
    et,          \* the eviction policy of the cache under study
    c,           \* the cache: [size, timeInterval, m, evictionList]
    rt,          \* the sweeper goroutine, stopCh, whether m is nil, a halt
    now,         \* the clock read by time.Now()
    written,     \* ghost: per stored key, the latest write call made on it
    touchOrder,  \* ghost (LRU): stored keys, most recently touched first
    run,         \* ghost: the Set calls so far, while nothing else was called
    cs,          \* two caches a and b that goroutines transfer between
    mu,          \* the RWMutex of a and of b: its writer and its readers
    gr           \* per goroutine: the call it runs and its position in it

vars == <<et, c, rt, now, written, touchOrder, run, cs, mu, gr>>

\* The variables of the concurrent transfers.
xferVars == <<cs, mu, gr>>

------------------------------------------------------------------------------
\* Generic helpers.

Len0(f) == Cardinality(DOMAIN f)

EmptyMap == [k \in {} |-> 0]

\* m[k] = e, as Go's map assignment.
Put(m, k, e) == [x \in (DOMAIN m) \cup {k} |-> IF x = k THEN e ELSE m[x]]

\* delete(m, k) for every k in ks.
DeleteKeys(m, ks) == [x \in (DOMAIN m) \ ks |-> m[x]]

\* t.Before(u)
Before(t, u) == t < u

\* t.After(u)
After(t, u) == t > u

\* All orders in which a range loop can visit the key set S.
RECURSIVE Orders(_)
Orders(S) ==
    IF S = {} THEN {<<>>}
    ELSE UNION {{<<k>> \o o : o \in Orders(S \ {k})} : k \in S}

\* The outcome of an operation: the cache after it, what it returned, and
\* the keys its capacity eviction removed.
Outcome(cc, r, ev) == [c |-> cc, ret |-> r, evicted |-> ev]

\* Return values: nothing, Get's (value, found), NotFoundSet*'s bool.
Void == [ok |-> FALSE, value |-> ZeroV]
RetGet(found, v) == [ok |-> found, value |-> v]
RetBool(b) == [ok |-> b, value |-> ZeroV]

------------------------------------------------------------------------------
\* The Manual cache (mcache.go).

\* valueWithTimeout[V]
valueWithTimeout(v, e) == [value |-> v, expireAt |-> e]

\* newManual
StartedSweeperAlways(tmIvl) == "running"

\* newManual: go db.expireKeys() only if db.timeInterval > 0.
StartedSweeper(tmIvl) == IF tmIvl > 0 THEN "running" ELSE "off"

newManual(size, tmIvl) ==
    [size |-> size, timeInterval |-> tmIvl, m |-> EmptyMap, evictionList |-> <<>>]

\* The first loop of MCache.evict(1): the range stops after deleting the
\* first entry it meets with expireAt not after now.
ManualEvictExpired(m, t) ==
    LET expired == {k \in DOMAIN m :
                       m[k].expireAt # NilTime /\ ~After(m[k].expireAt, t)}
    IN  IF expired = {} THEN {m} ELSE {DeleteKeys(m, {k}) : k \in expired}

\* MCache.evict(1): after the first loop, while counter < i the inner range
\* deletes every key it visits.
ManualEvict(m, t) ==
    {  LET counter == Len0(m) - Len0(m1)
           i == IF 1 > Len0(m1) THEN Len0(m1) ELSE 1
       IN  IF counter < i THEN EmptyMap ELSE m1
     : m1 \in ManualEvictExpired(m, t) }

\* "if len(c.m) == int(c.size) { c.evict(1) }; c.m[k] = e"
ManualInsert(cc, k, e, t, r) ==
    IF Len0(cc.m) = cc.size
    THEN {Outcome([cc EXCEPT !.m = Put(m1, k, e)], r, (DOMAIN cc.m) \ (DOMAIN m1))
            : m1 \in ManualEvict(cc.m, t)}
    ELSE {Outcome([cc EXCEPT !.m = Put(cc.m, k, e)], r, {})}

\* MCache.Set
ManualSet(cc, k, v, t) ==
    IF cc.size = 0 THEN {Outcome(cc, Void, {})}
    ELSE ManualInsert(cc, k, valueWithTimeout(v, NilTime), t, Void)

\* MCache.setValueWithTimeout
ManualSetValueWithTimeout(cc, k, e, t) ==
    IF cc.size = 0 THEN {Outcome(cc, Void, {})}
    ELSE ManualInsert(cc, k, e, t, Void)

\* MCache.NotFoundSet
ManualNotFoundSet(cc, k, v, t) ==
    IF cc.size = 0 THEN {Outcome(cc, RetBool(FALSE), {})}
    ELSE IF k \notin DOMAIN cc.m
         THEN ManualInsert(cc, k, valueWithTimeout(v, NilTime), t, RetBool(TRUE))
         ELSE {Outcome(cc, RetBool(FALSE), {})}

\* MCache.SetWithTimeout
ManualSetWithTimeout(cc, k, v, timeout, t) ==
    IF cc.size = 0 THEN {Outcome(cc, Void, {})}
    ELSE IF timeout > 0
         THEN ManualInsert(cc, k, valueWithTimeout(v, t + timeout), t, Void)
         ELSE ManualSet(cc, k, v, t)

\* MCache.NotFoundSetWithTimeout
ManualNotFoundSetWithTimeout(cc, k, v, timeout, t) ==
    IF cc.size = 0 THEN {Outcome(cc, RetBool(FALSE), {})}
    ELSE IF timeout > 0
         THEN IF k \notin DOMAIN cc.m
              THEN ManualInsert(cc, k, valueWithTimeout(v, t + timeout), t,
                                RetBool(TRUE))
              ELSE {Outcome(cc, RetBool(FALSE), {})}
         ELSE IF k \notin DOMAIN cc.m
              THEN ManualInsert(cc, k, valueWithTimeout(v, NilTime), t,
                                RetBool(TRUE))
              ELSE {Outcome(cc, RetBool(FALSE), {})}

\* A Get that compares the expiration without the nil check.
ManualGetNoNilCheck(cc, k, t) ==
    IF k \notin DOMAIN cc.m THEN Outcome(cc, RetGet(FALSE, ZeroV), {})
    ELSE IF Before(cc.m[k].expireAt, t)
         THEN Outcome([cc EXCEPT !.m = DeleteKeys(cc.m, {k})],
                      RetGet(FALSE, ZeroV), {})
         ELSE Outcome(cc, RetGet(TRUE, cc.m[k].value), {})

ManualGetKeepsExpired(cc, k, t) ==
    IF k \notin DOMAIN cc.m THEN Outcome(cc, RetGet(FALSE, ZeroV), {})
    ELSE IF cc.m[k].expireAt # NilTime /\ Before(cc.m[k].expireAt, t)
         THEN Outcome(cc, RetGet(FALSE, ZeroV), {})
         ELSE Outcome(cc, RetGet(TRUE, cc.m[k].value), {})

\* MCache.Get
ManualGet(cc, k, t) ==
    IF k \notin DOMAIN cc.m THEN Outcome(cc, RetGet(FALSE, ZeroV), {})
    ELSE IF cc.m[k].expireAt # NilTime /\ Before(cc.m[k].expireAt, t)
         THEN Outcome([cc EXCEPT !.m = DeleteKeys(cc.m, {k})],
                      RetGet(FALSE, ZeroV), {})
         ELSE Outcome(cc, RetGet(TRUE, cc.m[k].value), {})

\* MCache.Delete
ManualDelete(cc, k) == [cc EXCEPT !.m = DeleteKeys(cc.m, {k})]

\* One tick of MCache.expireKeys
ManualSweepNothing(cc, t) == cc

ManualSweepNotAfter(cc, t) ==
    [cc EXCEPT !.m = DeleteKeys(cc.m,
        {k \in DOMAIN cc.m :
            cc.m[k].expireAt # NilTime /\ ~After(cc.m[k].expireAt, t)})]

ManualSweep(cc, t) ==
    [cc EXCEPT !.m = DeleteKeys(cc.m,
        {k \in DOMAIN cc.m :
            cc.m[k].expireAt # NilTime /\ Before(cc.m[k].expireAt, t)})]

\* MCache.Len is not part of mcache.go; Count returns len(c.m).
ManualCount(cc) == Len0(cc.m)

\* MCache.Keys: every key of the map, in the order the range visits them.
ManualKeys(cc) == Orders(DOMAIN cc.m)

------------------------------------------------------------------------------
\* container/list, as used by the LRU and LFU caches.  The list is a sequence
\* read front to back; an element is named by the key its item carries, and
\* the map holds that name as its *list.Element.

\* The position of the element m[k] points to.
IndexOf(l, k) == CHOOSE i \in 1..Len(l) : l[i].key = k

\* l.Remove(e), e at position i
Remove(l, i) == SubSeq(l, 1, i - 1) \o SubSeq(l, i + 1, Len(l))

\* l.PushFront(x)
PushFront(l, x) == <<x>> \o l

\* l.PushBack(x)
PushBack(l, x) == Append(l, x)

\* l.MoveToFront(e), e at position i
MoveToFront(l, i) == <<l[i]>> \o Remove(l, i)

\* l.MoveAfter(e, mark), e at position i and mark at position j # i
MoveAfter(l, i, j) ==
    IF i = j THEN l
    ELSE LET r == Remove(l, i)
             jj == IF j > i THEN j - 1 ELSE j
         IN  SubSeq(r, 1, jj) \o <<l[i]>> \o SubSeq(r, jj + 1, Len(r))

\* The handles a map holds for the elements of l.
Handle(k) == k

------------------------------------------------------------------------------
\* The LRU cache (lru_cache.go, lines 29-278).

lruItem(k, v, e) == [key |-> k, value |-> v, expireAt |-> e]

\* NewLRU
NewLRU(size) ==
    [size |-> size, timeInterval |-> 0, m |-> EmptyMap, evictionList |-> <<>>]

\* An evict that removes nothing.
LRUEvictNothing(cc) == cc

\* An evict that removes the front of the eviction list instead of the back.
LRUEvictFront(cc) ==
    IF Len(cc.evictionList) > 0
    THEN [cc EXCEPT !.m = DeleteKeys(cc.m, {cc.evictionList[1].key}),
                    !.evictionList = Remove(cc.evictionList, 1)]
    ELSE cc

\* LRUCache.evict(1)
LRUEvict(cc) ==
    IF Len(cc.evictionList) > 0
    THEN LET b == cc.evictionList[Len(cc.evictionList)]
         IN  [cc EXCEPT !.m = DeleteKeys(cc.m, {b.key}),
                        !.evictionList = Remove(cc.evictionList,
                                                Len(cc.evictionList))]
    ELSE cc

\* An expiration computed for a zero duration too.
ExpireAtOfZero(exp, t) == IF exp >= 0 THEN t + exp ELSE NilTime

\* The expiration LRUCache.set and LFUCache.set compute from exp.
ExpireAtOf(exp, t) == IF exp > 0 THEN t + exp ELSE NilTime

LRUsetKeepsExpireAt(cc, k, v, exp, t, r) ==
    LET tm == ExpireAtOf(exp, t) IN
    IF k \in DOMAIN cc.m
    THEN LET i == IndexOf(cc.evictionList, cc.m[k])
             l1 == [cc.evictionList EXCEPT ![i].value = v]
         IN  Outcome([cc EXCEPT !.evictionList = MoveToFront(l1, i)], r, {})
    ELSE LET c1 == IF Len0(cc.m) = cc.size THEN LRUEvict(cc) ELSE cc
         IN  Outcome([c1 EXCEPT
                        !.evictionList = PushFront(c1.evictionList, lruItem(k, v, tm)),
                        !.m = Put(c1.m, k, Handle(k))],
                     r, (DOMAIN cc.m) \ (DOMAIN c1.m))

\* LRUCache.set
LRUset(cc, k, v, exp, t, r) ==
    LET tm == ExpireAtOf(exp, t) IN
    IF k \in DOMAIN cc.m
    THEN LET i == IndexOf(cc.evictionList, cc.m[k])
             l1 == [cc.evictionList EXCEPT ![i].value = v, ![i].expireAt = tm]
         IN  Outcome([cc EXCEPT !.evictionList = MoveToFront(l1, i)], r, {})
    ELSE LET c1 == IF Len0(cc.m) = cc.size THEN LRUEvict(cc) ELSE cc
         IN  Outcome([c1 EXCEPT
                        !.evictionList = PushFront(c1.evictionList, lruItem(k, v, tm)),
                        !.m = Put(c1.m, k, Handle(k))],
                     r, (DOMAIN cc.m) \ (DOMAIN c1.m))

\* LRUCache.Set
LRUSet(cc, k, v, t) == LRUset(cc, k, v, 0, t, Void)

\* LRUCache.SetWithTimeout
LRUSetWithTimeout(cc, k, v, timeout, t) == LRUset(cc, k, v, timeout, t, Void)

\* A NotFoundSet that writes whether or not the key is stored.
LRUNotFoundSetAlways(cc, k, v, t) == LRUset(cc, k, v, 0, t, RetBool(TRUE))

\* LRUCache.NotFoundSet
LRUNotFoundSet(cc, k, v, t) ==
    IF k \in DOMAIN cc.m THEN Outcome(cc, RetBool(FALSE), {})
    ELSE LRUset(cc, k, v, 0, t, RetBool(TRUE))

\* LRUCache.NotFoundSetWithTimeout
LRUNotFoundSetWithTimeout(cc, k, v, timeout, t) ==
    IF k \in DOMAIN cc.m THEN Outcome(cc, RetBool(FALSE), {})
    ELSE LRUset(cc, k, v, timeout, t, RetBool(TRUE))

\* A delete that removes nothing.
LRUdeleteNothing(cc, k) == cc

\* LRUCache.delete
LRUdelete(cc, k) ==
    IF k \notin DOMAIN cc.m THEN cc
    ELSE [cc EXCEPT !.m = DeleteKeys(cc.m, {k}),
                    !.evictionList = Remove(cc.evictionList,
                                            IndexOf(cc.evictionList, cc.m[k]))]

\* A Get that returns the value without moving the element to the front.
LRUGetNoTouch(cc, k, t) ==
    IF k \notin DOMAIN cc.m THEN Outcome(cc, RetGet(FALSE, ZeroV), {})
    ELSE LET item == cc.evictionList[IndexOf(cc.evictionList, cc.m[k])]
         IN  IF item.expireAt # NilTime /\ Before(item.expireAt, t)
             THEN Outcome(LRUdelete(cc, k), RetGet(FALSE, ZeroV), {})
             ELSE Outcome(cc, RetGet(TRUE, item.value), {})

\* LRUCache.Get
LRUGet(cc, k, t) ==
    IF k \notin DOMAIN cc.m THEN Outcome(cc, RetGet(FALSE, ZeroV), {})
    ELSE LET i == IndexOf(cc.evictionList, cc.m[k])
             item == cc.evictionList[i]
         IN  IF item.expireAt # NilTime /\ Before(item.expireAt, t)
             THEN Outcome([cc EXCEPT !.m = DeleteKeys(cc.m, {k}),
                                     !.evictionList = Remove(cc.evictionList, i)],
                          RetGet(FALSE, ZeroV), {})
             ELSE Outcome([cc EXCEPT !.evictionList = MoveToFront(cc.evictionList, i)],
                          RetGet(TRUE, item.value), {})

\* LRUCache.Len
LRULen(cc) == Len0(cc.m)

\* LRUCache.Keys: the keys whose item is unexpired, in the order the range
\* visits them.
LRUKeys(cc, t) ==
    Orders({k \in DOMAIN cc.m :
              LET item == cc.evictionList[IndexOf(cc.evictionList, cc.m[k])]
              IN  item.expireAt = NilTime \/ ~Before(item.expireAt, t)})

\* LRUCache.Count: the number of items that are unexpired.
LRUCount(cc, t) ==
    Cardinality({k \in DOMAIN cc.m :
                   LET item == cc.evictionList[IndexOf(cc.evictionList, cc.m[k])]
                   IN  item.expireAt = NilTime \/ ~Before(item.expireAt, t)})

------------------------------------------------------------------------------
\* The LFU cache (lfu_cache.go).

lfuItem(k, v, f, e) == [key |-> k, value |-> v, freq |-> f, expireAt |-> e]

\* NewLFU
NewLFU(size) ==
    [size |-> size, timeInterval |-> 0, m |-> EmptyMap, evictionList |-> <<>>]

\* An evict that removes the front of the eviction list instead of the back.
LFUEvictFront(cc) ==
    IF Len(cc.evictionList) > 0
    THEN [cc EXCEPT !.m = DeleteKeys(cc.m, {cc.evictionList[1].key}),
                    !.evictionList = Remove(cc.evictionList, 1)]
    ELSE cc

\* LFUCache.evict(1)
LFUEvict(cc) ==
    IF Len(cc.evictionList) > 0
    THEN LET b == cc.evictionList[Len(cc.evictionList)]
         IN  [cc EXCEPT !.m = DeleteKeys(cc.m, {b.key}),
                        !.evictionList = Remove(cc.evictionList,
                                                Len(cc.evictionList))]
    ELSE cc

\* The loop of LFUCache.move: from curr towards the front, while curr has a
\* predecessor, stop at the first element of a lower frequency than freq.
RECURSIVE MoveWalk(_, _, _)
MoveWalk(l, freq, curr) ==
    IF curr = 1 THEN curr
    ELSE IF freq > l[curr].freq THEN curr
         ELSE MoveWalk(l, freq, curr - 1)

\* LFUCache.move(elem), elem at position i
LFUmove(l, i) ==
    LET freq == l[i].freq
        curr == MoveWalk(l, freq, i)
    IN  IF curr = i THEN l
        ELSE IF l[curr].freq = freq THEN MoveToFront(l, i)
             ELSE MoveAfter(l, i, curr)

LFUsetKeepsFreq(cc, k, v, exp, t, r) ==
    LET tm == ExpireAtOf(exp, t) IN
    IF k \in DOMAIN cc.m
    THEN LET i == IndexOf(cc.evictionList, cc.m[k])
             l1 == [cc.evictionList EXCEPT ![i].value = v, ![i].expireAt = tm]
         IN  Outcome([cc EXCEPT !.evictionList = LFUmove(l1, i)], r, {})
    ELSE LET c1 == IF Len0(cc.m) = cc.size THEN LFUEvict(cc) ELSE cc
             l1 == PushBack(c1.evictionList, lfuItem(k, v, 1, tm))
         IN  Outcome([c1 EXCEPT !.evictionList = LFUmove(l1, Len(l1)),
                                !.m = Put(c1.m, k, Handle(k))],
                     r, (DOMAIN cc.m) \ (DOMAIN c1.m))

\* LFUCache.set
LFUset(cc, k, v, exp, t, r) ==
    LET tm == ExpireAtOf(exp, t) IN
    IF k \in DOMAIN cc.m
    THEN LET i == IndexOf(cc.evictionList, cc.m[k])
             l1 == [cc.evictionList EXCEPT ![i].value = v, ![i].expireAt = tm,
                                           ![i].freq = @ + 1]
         IN  Outcome([cc EXCEPT !.evictionList = LFUmove(l1, i)], r, {})
    ELSE LET c1 == IF Len0(cc.m) = cc.size THEN LFUEvict(cc) ELSE cc
             l1 == PushBack(c1.evictionList, lfuItem(k, v, 1, tm))
         IN  Outcome([c1 EXCEPT !.evictionList = LFUmove(l1, Len(l1)),
                                !.m = Put(c1.m, k, Handle(k))],
                     r, (DOMAIN cc.m) \ (DOMAIN c1.m))

\* LFUCache.Set
LFUSet(cc, k, v, t) == LFUset(cc, k, v, 0, t, Void)

\* LFUCache.SetWithTimeout
LFUSetWithTimeout(cc, k, v, exp, t) == LFUset(cc, k, v, exp, t, Void)

\* LFUCache.NotFoundSet
LFUNotFoundSet(cc, k, v, t) ==
    IF k \in DOMAIN cc.m THEN Outcome(cc, RetBool(FALSE), {})
    ELSE LFUset(cc, k, v, 0, t, RetBool(TRUE))

\* LFUCache.NotFoundSetWithTimeout
LFUNotFoundSetWithTimeout(cc, k, v, timeout, t) ==
    IF k \in DOMAIN cc.m THEN Outcome(cc, RetBool(FALSE), {})
    ELSE LFUset(cc, k, v, timeout, t, RetBool(TRUE))

LFUdeleteKeepsNode(cc, k) == [cc EXCEPT !.m = DeleteKeys(cc.m, {k})]

\* LFUCache.delete
LFUdelete(cc, k) ==
    [cc EXCEPT !.m = DeleteKeys(cc.m, {k}),
               !.evictionList = Remove(cc.evictionList,
                                       IndexOf(cc.evictionList, cc.m[k]))]

\* LFUCache.Delete
LFUDelete(cc, k) == IF k \notin DOMAIN cc.m THEN cc ELSE LFUdelete(cc, k)

\* A Get that never looks at the expiration.
LFUGetNoExpiry(cc, k, t) ==
    IF k \notin DOMAIN cc.m THEN Outcome(cc, RetGet(FALSE, ZeroV), {})
    ELSE LET i == IndexOf(cc.evictionList, cc.m[k])
             l1 == [cc.evictionList EXCEPT ![i].freq = @ + 1]
         IN  Outcome([cc EXCEPT !.evictionList = LFUmove(l1, i)],
                     RetGet(TRUE, cc.evictionList[i].value), {})

\* LFUCache.Get
LFUGet(cc, k, t) ==
    IF k \notin DOMAIN cc.m THEN Outcome(cc, RetGet(FALSE, ZeroV), {})
    ELSE LET i == IndexOf(cc.evictionList, cc.m[k])
             item == cc.evictionList[i]
         IN  IF item.expireAt # NilTime /\ Before(item.expireAt, t)
             THEN Outcome(LFUdelete(cc, k), RetGet(FALSE, ZeroV), {})
             ELSE LET l1 == [cc.evictionList EXCEPT ![i].freq = @ + 1]
                  IN  Outcome([cc EXCEPT !.evictionList = LFUmove(l1, i)],
                              RetGet(TRUE, item.value), {})

\* LFUCache.Len
LFULen(cc) == Len0(cc.m)

\* LFUCache.Keys: the keys whose item is unexpired, in the order the range
\* visits them.
LFUKeys(cc, t) ==
    Orders({k \in DOMAIN cc.m :
              LET item == cc.evictionList[IndexOf(cc.evictionList, cc.m[k])]
              IN  item.expireAt = NilTime \/ ~Before(item.expireAt, t)})

\* LFUCache.Count: the number of items that are unexpired.
LFUCount(cc, t) ==
    Cardinality({k \in DOMAIN cc.m :
                   LET item == cc.evictionList[IndexOf(cc.evictionList, cc.m[k])]
                   IN  item.expireAt = NilTime \/ ~Before(item.expireAt, t)})

------------------------------------------------------------------------------
\* TransferTo and CopyTo.  An outcome names the source and the destination
\* after the call, the keys evicted from the destination, and the keys handed
\* to the destination in the order the range loop visited them.

XferOutcome(s, d, ev, o) == [src |-> s, dst |-> d, evicted |-> ev, fed |-> o]

\* "for k, v := range src.m { dst.setValueWithTimeout(k, v) }" for the visiting
\* order o: the destinations it can produce, with the keys evicted on the way.
RECURSIVE ManualFeed(_, _, _, _)
ManualFeed(dst, srcm, o, t) ==
    IF o = <<>> THEN {[c |-> dst, evicted |-> {}]}
    ELSE UNION {
           {[c |-> r.c, evicted |-> x.evicted \cup r.evicted]
              : r \in ManualFeed(x.c, srcm, Tail(o), t)}
           : x \in ManualSetValueWithTimeout(dst, Head(o), srcm[Head(o)], t)}

\* MCache.TransferTo
ManualTransferTo(src, dst, t) ==
    UNION {
      {XferOutcome([src EXCEPT !.m = EmptyMap], r.c, r.evicted, o)
         : r \in ManualFeed(dst, src.m, o, t)}
      : o \in Orders(DOMAIN src.m)}

\* MCache.CopyTo
ManualCopyTo(src, dst, t) ==
    UNION {
      {XferOutcome(src, r.c, r.evicted, o) : r \in ManualFeed(dst, src.m, o, t)}
      : o \in Orders(DOMAIN src.m)}

\* The item of key k in an LRU or LFU cache.
ItemOf(cc, k) == cc.evictionList[IndexOf(cc.evictionList, cc.m[k])]

\* "expireAt == nil || !expireAt.Before(time.Now())"
Unexpired(item, t) == item.expireAt = NilTime \/ ~Before(item.expireAt, t)

\* The keys a TransferTo or CopyTo of an LRU or LFU cache hands over.
LiveKeys(cc, t) == {k \in DOMAIN cc.m : Unexpired(ItemOf(cc, k), t)}

\* "dst.Set(k, item.value)" for each key of o in turn (LRU).
RECURSIVE LRUFeed(_, _, _, _)
LRUFeed(dst, src, o, t) ==
    IF o = <<>> THEN [c |-> dst, evicted |-> {}]
    ELSE LET x == LRUSet(dst, Head(o), ItemOf(src, Head(o)).value, t)
             r == LRUFeed(x.c, src, Tail(o), t)
         IN  [c |-> r.c, evicted |-> x.evicted \cup r.evicted]

\* "src.delete(k)" for each key of o in turn (LRU).
RECURSIVE LRUDeleteAll(_, _)
LRUDeleteAll(src, o) ==
    IF o = <<>> THEN src ELSE LRUDeleteAll(LRUdelete(src, Head(o)), Tail(o))

\* LRUCache.TransferTo
LRUTransferTo(src, dst, t) ==
    {LET r == LRUFeed(dst, src, o, t)
     IN  XferOutcome(LRUDeleteAll(src, o), r.c, r.evicted, o)
       : o \in Orders(LiveKeys(src, t))}

\* LRUCache.CopyTo
LRUCopyTo(src, dst, t) ==
    {LET r == LRUFeed(dst, src, o, t)
     IN  XferOutcome(src, r.c, r.evicted, o)
       : o \in Orders(LiveKeys(src, t))}

\* "dst.Set(k, item.value)" for each key of o in turn (LFU).
RECURSIVE LFUFeed(_, _, _, _)
LFUFeed(dst, src, o, t) ==
    IF o = <<>> THEN [c |-> dst, evicted |-> {}]
    ELSE LET x == LFUSet(dst, Head(o), ItemOf(src, Head(o)).value, t)
             r == LFUFeed(x.c, src, Tail(o), t)
         IN  [c |-> r.c, evicted |-> x.evicted \cup r.evicted]

\* "src.delete(k, v)" for each key of o in turn (LFU).
RECURSIVE LFUDeleteAll(_, _)
LFUDeleteAll(src, o) ==
    IF o = <<>> THEN src ELSE LFUDeleteAll(LFUdelete(src, Head(o)), Tail(o))

\* LFUCache.TransferTo
LFUTransferTo(src, dst, t) ==
    {LET r == LFUFeed(dst, src, o, t)
     IN  XferOutcome(LFUDeleteAll(src, o), r.c, r.evicted, o)
       : o \in Orders(LiveKeys(src, t))}

\* LFUCache.CopyTo
LFUCopyTo(src, dst, t) ==
    {LET r == LFUFeed(dst, src, o, t)
     IN  XferOutcome(src, r.c, r.evicted, o)
       : o \in Orders(LiveKeys(src, t))}

------------------------------------------------------------------------------
\* The three implementations behind one operation set.

SetOutcomes(p, cc, k, v, t) ==
    CASE p = "manual" -> ManualSet(cc, k, v, t)
      [] p = "lru" -> {LRUSet(cc, k, v, t)}
      [] p = "lfu" -> {LFUSet(cc, k, v, t)}

SetWithTimeoutOutcomes(p, cc, k, v, timeout, t) ==
    CASE p = "manual" -> ManualSetWithTimeout(cc, k, v, timeout, t)
      [] p = "lru" -> {LRUSetWithTimeout(cc, k, v, timeout, t)}
      [] p = "lfu" -> {LFUSetWithTimeout(cc, k, v, timeout, t)}

NotFoundSetOutcomes(p, cc, k, v, t) ==
    CASE p = "manual" -> ManualNotFoundSet(cc, k, v, t)
      [] p = "lru" -> {LRUNotFoundSet(cc, k, v, t)}
      [] p = "lfu" -> {LFUNotFoundSet(cc, k, v, t)}

NotFoundSetWithTimeoutOutcomes(p, cc, k, v, timeout, t) ==
    CASE p = "manual" -> ManualNotFoundSetWithTimeout(cc, k, v, timeout, t)
      [] p = "lru" -> {LRUNotFoundSetWithTimeout(cc, k, v, timeout, t)}
      [] p = "lfu" -> {LFUNotFoundSetWithTimeout(cc, k, v, timeout, t)}

GetOutcome(p, cc, k, t) ==
    CASE p = "manual" -> ManualGet(cc, k, t)
      [] p = "lru" -> LRUGet(cc, k, t)
      [] p = "lfu" -> LFUGet(cc, k, t)

DeleteOutcome(p, cc, k) ==
    CASE p = "manual" -> ManualDelete(cc, k)
      [] p = "lru" -> LRUdelete(cc, k)
      [] p = "lfu" -> LFUDelete(cc, k)

TransferToOutcomes(p, src, dst, t) ==
    CASE p = "manual" -> ManualTransferTo(src, dst, t)
      [] p = "lru" -> LRUTransferTo(src, dst, t)
      [] p = "lfu" -> LFUTransferTo(src, dst, t)

CopyToOutcomes(p, src, dst, t) ==
    CASE p = "manual" -> ManualCopyTo(src, dst, t)
      [] p = "lru" -> LRUCopyTo(src, dst, t)
      [] p = "lfu" -> LFUCopyTo(src, dst, t)

\* Len(): the number of physically stored entries.
CacheLen(cc) == Len0(cc.m)

\* The slices Keys() can return.
KeysOutcomes(p, cc, t) ==
    CASE p = "manual" -> ManualKeys(cc)
      [] p = "lru" -> LRUKeys(cc, t)
      [] p = "lfu" -> LFUKeys(cc, t)

\* Count(): the cache after the call and the number returned.
CountOutcome(p, cc, t) ==
    CASE p = "manual" -> Outcome(cc, ManualCount(cc), {})
      [] p = "lru" -> Outcome(cc, LRUCount(cc, t), {})
      [] p = "lfu" -> Outcome(cc, LFUCount(cc, t), {})

\* The value and expiration stored for key k.
Stored(p, cc, k) ==
    IF p = "manual" THEN cc.m[k]
    ELSE [value |-> ItemOf(cc, k).value, expireAt |-> ItemOf(cc, k).expireAt]

\* CacheBuilder.Build() after New(size).EvictType(p).TimeInterval(tmIvl):
\* the switch on the policy kind has the single case Manual and panics with
\* "incache: unknown evict-type" on every other kind.
Build(p, size, tmIvl) ==
    IF p = Manual
    THEN [panic |-> FALSE, cache |-> newManual(size, tmIvl)]
    ELSE [panic |-> TRUE]

\* The cache of policy p as the program can construct it: Build() for
\* Manual, the constructors NewLRU(size) and NewLFU(size) for the others.
Construct(p, size, tmIvl) ==
    CASE p = "manual" -> Build(p, size, tmIvl).cache
      [] p = "lru" -> NewLRU(size)
      [] p = "lfu" -> NewLFU(size)

\* newManual starts the goroutine expireKeys when timeInterval > 0; NewLRU
\* and NewLFU start none.  stopCh is made open, m is made non-nil.
Runtime(p, tmIvl) ==
    [sweeper |-> IF p = "manual" THEN StartedSweeper(tmIvl) ELSE "off",
     stopCh |-> "open", sent |-> 0, mNil |-> FALSE, halt |-> "none"]

\* MCache.Purge takes no lock.  With timeInterval > 0 it sends on the
\* unbuffered stopCh: the send panics on a closed channel, is received by
\* the sweeper at its select (which then returns), and waits for ever when
\* no sweeper is left to receive; then stopCh is closed.  m becomes nil.
ManualPurge(cc, r) ==
    IF cc.timeInterval > 0
    THEN CASE r.stopCh = "closed" -> [c |-> cc, rt |-> [r EXCEPT !.halt = "panic"]]
           [] r.stopCh = "open" /\ r.sweeper = "running" ->
                [c |-> [cc EXCEPT !.m = EmptyMap],
                 rt |-> [r EXCEPT !.sweeper = "returned", !.stopCh = "closed",
                                  !.sent = @ + 1, !.mNil = TRUE]]
           [] OTHER -> [c |-> cc, rt |-> [r EXCEPT !.halt = "blocked"]]
    ELSE [c |-> [cc EXCEPT !.m = EmptyMap], rt |-> [r EXCEPT !.mNil = TRUE]]

LRUPurgeKeepsList(cc, r) == [c |-> [cc EXCEPT !.m = EmptyMap], rt |-> r]

\* LRUCache.Purge: a fresh map and evictionList.Init().
LRUPurge(cc, r) ==
    [c |-> [cc EXCEPT !.m = EmptyMap, !.evictionList = <<>>], rt |-> r]

\* LFUCache.Purge: a fresh map and evictionList.Init().
LFUPurge(cc, r) ==
    [c |-> [cc EXCEPT !.m = EmptyMap, !.evictionList = <<>>], rt |-> r]

PurgeOutcome(p, cc, r) ==
    CASE p = "manual" -> ManualPurge(cc, r)
      [] p = "lru" -> LRUPurge(cc, r)
      [] p = "lfu" -> LFUPurge(cc, r)

\* A call whose outcome o holds an entry although m is nil has executed
\* c.m[k] = ... on the nil map.
NilMapWrite(r, o) == r.mNil /\ o.c.m # EmptyMap

------------------------------------------------------------------------------
\* The caches another goroutine can hand to TransferTo/CopyTo as the source:
\* every cache of the same policy holding at most SrcMax entries.

\* The expirations an entry written at or before time t can carry.
SrcExpires(t) == {NilTime} \cup (1..(t + MaxTtl))

\* The keys of S in ascending order.
KeySeq(S) == CHOOSE o \in Orders(S) : \A i, j \in 1..Len(o) : i < j => o[i] < o[j]

\* The cache of policy p and capacity n that holds the entries f.
SrcCache(p, f, n) ==
    CASE p = "manual" ->
           [newManual(n, 0) EXCEPT !.m = f]
      [] p = "lru" ->
           [NewLRU(n) EXCEPT
              !.m = [k \in DOMAIN f |-> Handle(k)],
              !.evictionList =
                 [i \in 1..Len0(f) |->
                    lruItem(KeySeq(DOMAIN f)[i], f[KeySeq(DOMAIN f)[i]].value,
                            f[KeySeq(DOMAIN f)[i]].expireAt)]]
      [] p = "lfu" ->
           [NewLFU(n) EXCEPT
              !.m = [k \in DOMAIN f |-> Handle(k)],
              !.evictionList =
                 [i \in 1..Len0(f) |->
                    lfuItem(KeySeq(DOMAIN f)[i], f[KeySeq(DOMAIN f)[i]].value, 1,
                            f[KeySeq(DOMAIN f)[i]].expireAt)]]

\* The caches of policy p that hold at most n entries at time t.
SrcCachesUpTo(p, t, n) ==
    UNION {
      {SrcCache(p, f, n) : f \in [S -> [value : Vals, expireAt : SrcExpires(t)]]}
      : S \in {S \in SUBSET Keys : Cardinality(S) <= n}}

SrcCaches(p, t) == SrcCachesUpTo(p, t, SrcMax)

------------------------------------------------------------------------------
\* Ghost bookkeeping, computed from the calls alone.

\* The record of a write call storing value v with expiration e; seen tells
\* whether a Set(k, _) was called since k was last absent.
Write(v, e, seen) == [value |-> v, expireAt |-> e, setSeen |-> seen]

\* written after a step to cache cc: upd holds the writes of the step.
WrittenAfter(cc, upd) ==
    [x \in Keys |->
       IF x \notin DOMAIN cc.m THEN NoWrite
       ELSE IF x \in DOMAIN upd THEN upd[x]
       ELSE written[x]]

\* Whether key k keeps the Set it has seen through an overwrite that evicted ev.
KeepsSeen(k, ev) == k \in DOMAIN c.m /\ written[k].setSeen /\ k \notin ev

\* The sequence s without the elements outside S.
RECURSIVE Filter(_, _)
Filter(s, S) ==
    IF s = <<>> THEN <<>>
    ELSE IF Head(s) \in S THEN <<Head(s)>> \o Filter(Tail(s), S)
         ELSE Filter(Tail(s), S)

\* The touch order after the keys of o were touched in turn.
RECURSIVE Touch(_, _)
Touch(s, o) ==
    IF o = <<>> THEN s
    ELSE Touch(<<Head(o)>> \o Filter(s, Keys \ {Head(o)}), Tail(o))

TouchOrderAfter(cc, o) ==
    IF et = "lru" THEN Filter(Touch(touchOrder, o), DOMAIN cc.m) ELSE <<>>

Range(s) == {s[i] : i \in 1..Len(s)}

\* run: the calls made so far on a fresh cache, as long as every call was a
\* Set of a key not set before (at most size + 1 of them) or a Get (at most
\* MaxRunGets of them).
BrokenRun == [ok |-> FALSE, seq |-> <<>>]
RunCall(op, k, v) == [op |-> op, key |-> k, value |-> v]
RunSets(r) == {i \in 1..Len(r.seq) : r.seq[i].op = "Set"}
RunGets(r) == {i \in 1..Len(r.seq) : r.seq[i].op = "Get"}
RunAfterSet(k, v) ==
    IF /\ run.ok
       /\ k \notin {run.seq[i].key : i \in RunSets(run)}
       /\ Cardinality(RunSets(run)) <= c.size
    THEN [ok |-> TRUE, seq |-> Append(run.seq, RunCall("Set", k, v))]
    ELSE BrokenRun
RunAfterGet(k) ==
    IF run.ok /\ Cardinality(RunGets(run)) < MaxRunGets
    THEN [ok |-> TRUE, seq |-> Append(run.seq, RunCall("Get", k, ZeroV))]
    ELSE BrokenRun

\* The frequency counter is unbounded in the code; the model stops touching
\* a key whose counter has reached MaxFreq.
FreqBounded(cc) ==
    et = "lfu" => \A i \in 1..Len(cc.evictionList) : cc.evictionList[i].freq <= MaxFreq

\* A cache that NewLRU or NewLFU built with size 0 never evicts and grows
\* without bound; the model follows it up to MaxOverfill entries.
LenBounded(cc) == cc.size = 0 => CacheLen(cc) <= MaxOverfill

\* One step: the operation's outcome o, the write calls upd it made, the keys
\* it touched in order, and the run after it.
\* A halted program (a panic, or a caller blocked for ever) takes no step.
\* A call that stores an entry while m is nil panics with "assignment to
\* entry in nil map"; every other call ends with outcome o.
Step(o, upd, touched, r) ==
    /\ rt.halt = "none"
    /\ FreqBounded(o.c)
    /\ LenBounded(o.c)
    /\ IF NilMapWrite(rt, o)
       THEN /\ rt' = [rt EXCEPT !.halt = "panic"]
            /\ UNCHANGED <<c, written, touchOrder, run>>
       ELSE /\ c' = o.c
            /\ written' = WrittenAfter(o.c, upd)
            /\ touchOrder' = TouchOrderAfter(o.c, touched)
            /\ run' = r
            /\ UNCHANGED rt
    /\ UNCHANGED <<et, now>>
    /\ UNCHANGED xferVars

NoUpd == [x \in {} |-> NoWrite]

\* The write calls a TransferTo/CopyTo outcome x made on the destination:
\* setValueWithTimeout(k, entry) by a Manual source, Set(k, value) otherwise.
FedWrites(p, src, x) ==
    [k \in Range(x.fed) |->
       IF p = "manual"
       THEN Write(src.m[k].value, src.m[k].expireAt, FALSE)
       ELSE Write(ItemOf(src, k).value, NilTime, TRUE)]

------------------------------------------------------------------------------
\* The state machine.

\* The two caches, the goroutines, and a mutex nobody holds.
CacheIds == {"a", "b"}
Goroutines == {"g1", "g2"}
NoOne == "none"
Unlocked == [w |-> NoOne, r |-> {}, q |-> {}]
NoItem == [key |-> 0, value |-> ZeroV, expireAt |-> NilTime]

\* A goroutine that runs no call.
IdleGo == [op |-> "none", src |-> "a", dst |-> "a", pc |-> "idle",
           todo |-> <<>>, item |-> NoItem]

\* No concurrent transfer is under way.
NoTransfers ==
    /\ cs = [x \in CacheIds |-> NewLRU(0)]
    /\ mu = [x \in CacheIds |-> Unlocked]
    /\ gr = [g \in Goroutines |-> IdleGo]

Init ==
    /\ NoTransfers
    /\ et \in EvictTypes
    /\ \E size \in Caps, tmIvl \in Intervals :
         /\ et # "manual" => tmIvl = 0
         /\ c = Construct(et, size, tmIvl)
         /\ rt = Runtime(et, tmIvl)
    /\ now = 0
    /\ written = [k \in Keys |-> NoWrite]
    /\ touchOrder = <<>>
    /\ run = [ok |-> TRUE, seq |-> <<>>]

Set(k, v) ==
    \E o \in SetOutcomes(et, c, k, v, now) :
       Step(o, [x \in {k} |-> Write(v, NilTime, TRUE)], <<k>>, RunAfterSet(k, v))

SetWithTimeout(k, v, timeout) ==
    \E o \in SetWithTimeoutOutcomes(et, c, k, v, timeout, now) :
       Step(o,
            [x \in {k} |->
               Write(v, IF timeout > 0 THEN now + timeout ELSE NilTime,
                     KeepsSeen(k, o.evicted))],
            <<k>>, BrokenRun)

NotFoundSet(k, v) ==
    \E o \in NotFoundSetOutcomes(et, c, k, v, now) :
       IF o.ret.ok
       THEN Step(o, [x \in {k} |-> Write(v, NilTime, FALSE)], <<k>>, BrokenRun)
       ELSE Step(o, NoUpd, <<>>, BrokenRun)

NotFoundSetWithTimeout(k, v, timeout) ==
    \E o \in NotFoundSetWithTimeoutOutcomes(et, c, k, v, timeout, now) :
       IF o.ret.ok
       THEN Step(o,
                 [x \in {k} |->
                    Write(v, IF timeout > 0 THEN now + timeout ELSE NilTime, FALSE)],
                 <<k>>, BrokenRun)
       ELSE Step(o, NoUpd, <<>>, BrokenRun)

Get(k) ==
    LET o == GetOutcome(et, c, k, now)
    IN  Step(o, NoUpd, IF o.ret.ok THEN <<k>> ELSE <<>>, RunAfterGet(k))

Delete(k) ==
    Step(Outcome(DeleteOutcome(et, c, k), Void, {}), NoUpd, <<>>, BrokenRun)

\* src.TransferTo(c) by a source cache of the same policy.
TransferInto ==
    \E src \in SrcCaches(et, now) :
       \E x \in TransferToOutcomes(et, src, c, now) :
          Step(Outcome(x.dst, Void, x.evicted), FedWrites(et, src, x), x.fed,
               BrokenRun)

\* src.CopyTo(c) by a source cache of the same policy.
CopyInto ==
    \E src \in SrcCaches(et, now) :
       \E x \in CopyToOutcomes(et, src, c, now) :
          Step(Outcome(x.dst, Void, x.evicted), FedWrites(et, src, x), x.fed,
               BrokenRun)

\* One tick of the background sweeper, started only when timeInterval > 0.
Sweep ==
    /\ et = "manual"
    /\ rt.sweeper = "running"
    /\ Step(Outcome(ManualSweep(c, now), Void, {}), NoUpd, <<>>, BrokenRun)

\* Purge().
Purge ==
    /\ rt.halt = "none"
    /\ c' = PurgeOutcome(et, c, rt).c
    /\ rt' = PurgeOutcome(et, c, rt).rt
    /\ written' = WrittenAfter(PurgeOutcome(et, c, rt).c, NoUpd)
    /\ touchOrder' = TouchOrderAfter(PurgeOutcome(et, c, rt).c, <<>>)
    /\ run' = BrokenRun
    /\ UNCHANGED <<et, now>>
    /\ UNCHANGED xferVars

\* The clock advances.
Tick ==
    /\ rt.halt = "none"
    /\ now < MaxTime
    /\ now' = now + 1
    /\ UNCHANGED <<et, c, rt, written, touchOrder, run>>
    /\ UNCHANGED xferVars

Next ==
    \/ \E k \in Keys, v \in Vals : Set(k, v)
    \/ \E k \in Keys, v \in Vals, timeout \in Ttls : SetWithTimeout(k, v, timeout)
    \/ \E k \in Keys, v \in Vals : NotFoundSet(k, v)
    \/ \E k \in Keys, v \in Vals, timeout \in Ttls : NotFoundSetWithTimeout(k, v, timeout)
    \/ \E k \in Keys : Get(k)
    \/ \E k \in Keys : Delete(k)
    \/ TransferInto
    \/ CopyInto
    \/ Sweep
    \/ Purge
    \/ Tick

Spec == Init /\ [][Next]_vars

\* A Manual cache built with a sweep interval > 0.
SweepInit == Init /\ et = Manual /\ c.timeInterval > 0

\* The ticker of expireKeys fires every timeInterval and c.mu.Lock() is
\* granted to a waiting writer, so a tick that has work to do is not
\* postponed for ever.
SweepSpec == SweepInit /\ [][Next]_vars /\ WF_vars(Sweep)

------------------------------------------------------------------------------
\* Concurrent transfers: goroutine g1 runs a.TransferTo(b) or a.CopyTo(b)
\* while goroutine g2 runs b.TransferTo(a) or b.CopyTo(a).  Each step is one
\* lock operation or the code between two lock operations.

\* The bounds of the caches a and b: keys 1..LockKeys, capacity at most
\* LockCap.
LockKeys == 2
LockCap == 1

\* The caches a and b can start as: capacity n, at most n entries.
LockCaches(p, t) ==
    UNION {
      {SrcCache(p, f, n) : f \in [S -> [value : {1}, expireAt : SrcExpires(t)]]}
      : <<S, n>> \in {x \in (SUBSET (1..LockKeys)) \X (0..LockCap)
                        : Cardinality(x[1]) <= x[2]}}

\* sync.RWMutex: Lock waits until there is no writer and no reader; RLock
\* waits while a writer holds the lock or has called Lock and waits for it
\* (q holds the callers of Lock that wait).
CanLock(x) == mu[x].w = NoOne /\ mu[x].r = {}
CanRLock(x) == mu[x].w = NoOne /\ mu[x].q = {}

\* Whether the call takes the source's lock shared: MCache.CopyTo and
\* LFUCache.CopyTo call RLock, every other transfer calls Lock.
SharesSource(p, op) == op = "CopyTo" /\ p \in {"manual", "lfu"}

\* The entry of key k in cache cc, as the loop body reads it.
ItemAt(p, cc, k) ==
    [key |-> k, value |-> Stored(p, cc, k).value,
     expireAt |-> Stored(p, cc, k).expireAt]

\* The destinations one write of the loop body can produce:
\* dst.setValueWithTimeout(k, v) by MCache, dst.Set(k, value) otherwise.
FeedOne(p, dst, item, t) ==
    CASE p = "manual" ->
           {o.c : o \in ManualSetValueWithTimeout(dst, item.key,
                           valueWithTimeout(item.value, item.expireAt), t)}
      [] p = "lru" -> {LRUSet(dst, item.key, item.value, t).c}
      [] p = "lfu" -> {LFUSet(dst, item.key, item.value, t).c}

LockInit ==
    /\ et \in EvictTypes
    /\ c = Construct(et, 0, 0)
    /\ rt = Runtime(et, 0)
    /\ now \in {0, MaxTime}
    /\ written = [k \in Keys |-> NoWrite]
    /\ touchOrder = <<>>
    /\ run = BrokenRun
    /\ cs \in [CacheIds -> LockCaches(et, now)]
    /\ mu = [x \in CacheIds |-> Unlocked]
    /\ \E op1, op2 \in {"TransferTo", "CopyTo"} :
          gr = [g \in Goroutines |->
                  IF g = "g1"
                  THEN [IdleGo EXCEPT !.op = op1, !.src = "a", !.dst = "b",
                                      !.pc = "call"]
                  ELSE [IdleGo EXCEPT !.op = op2, !.src = "b", !.dst = "a",
                                      !.pc = "call"]]

\* Goroutine g runs a transfer call.
Transfers(g) == gr[g].op \in {"TransferTo", "CopyTo"}

\* "src.mu.Lock()" or "src.mu.RLock()", then the range statement starts.
GoLockSource(g) ==
    /\ Transfers(g)
    /\ gr[g].pc = "call"
    /\ IF SharesSource(et, gr[g].op)
       THEN /\ CanRLock(gr[g].src)
            /\ mu' = [mu EXCEPT ![gr[g].src].r = @ \cup {g}]
       ELSE /\ CanLock(gr[g].src)
            /\ mu' = [mu EXCEPT ![gr[g].src].w = g]
    /\ \E o \in Orders(DOMAIN cs[gr[g].src].m) :
          gr' = [gr EXCEPT ![g].pc = "range", ![g].todo = o]
    /\ UNCHANGED <<et, c, rt, now, written, touchOrder, run, cs>>

\* One iteration of "for k, v := range src.m" up to the lock call inside
\* dst.Set or dst.setValueWithTimeout: LRU and LFU skip an expired entry and
\* TransferTo deletes the entry from the source first; setValueWithTimeout
\* returns at once when the destination has size 0.
GoRange(g) ==
    /\ Transfers(g)
    /\ gr[g].pc = "range"
    /\ gr[g].todo # <<>>
    /\ LET k == Head(gr[g].todo)
           src == cs[gr[g].src]
           item == ItemAt(et, src, k)
       IN  IF et = "manual"
           THEN /\ IF cs[gr[g].dst].size = 0
                   THEN gr' = [gr EXCEPT ![g].todo = Tail(@)]
                   ELSE gr' = [gr EXCEPT ![g].pc = "dstLock", ![g].item = item]
                /\ cs' = cs
           ELSE IF Unexpired(item, now)
                THEN /\ gr' = [gr EXCEPT ![g].pc = "dstLock", ![g].item = item]
                     /\ cs' = IF gr[g].op = "TransferTo"
                              THEN [cs EXCEPT ![gr[g].src] =
                                      IF et = "lru" THEN LRUdelete(src, k)
                                      ELSE LFUdelete(src, k)]
                              ELSE cs
                ELSE /\ gr' = [gr EXCEPT ![g].todo = Tail(@)]
                     /\ cs' = cs
    /\ UNCHANGED <<et, c, rt, now, written, touchOrder, run, mu>>

\* "dst.mu.Lock()" inside dst.Set or dst.setValueWithTimeout, and the write.
GoLockDest(g) ==
    /\ Transfers(g)
    /\ gr[g].pc = "dstLock"
    /\ CanLock(gr[g].dst)
    /\ mu' = [mu EXCEPT ![gr[g].dst].w = g]
    /\ \E d \in FeedOne(et, cs[gr[g].dst], gr[g].item, now) :
          cs' = [cs EXCEPT ![gr[g].dst] = d]
    /\ gr' = [gr EXCEPT ![g].pc = "dstUnlock"]
    /\ UNCHANGED <<et, c, rt, now, written, touchOrder, run>>

\* The deferred "dst.mu.Unlock()"; the loop goes on.
GoUnlockDest(g) ==
    /\ Transfers(g)
    /\ gr[g].pc = "dstUnlock"
    /\ mu' = [mu EXCEPT ![gr[g].dst].w = NoOne]
    /\ gr' = [gr EXCEPT ![g].pc = "range", ![g].todo = Tail(@), ![g].item = NoItem]
    /\ UNCHANGED <<et, c, rt, now, written, touchOrder, run, cs>>

\* The loop is over: MCache.TransferTo replaces the source's map, and the
\* deferred unlock of the source runs.
GoReturn(g) ==
    /\ Transfers(g)
    /\ gr[g].pc = "range"
    /\ gr[g].todo = <<>>
    /\ cs' = IF et = "manual" /\ gr[g].op = "TransferTo"
             THEN [cs EXCEPT ![gr[g].src].m = EmptyMap]
             ELSE cs
    /\ mu' = IF SharesSource(et, gr[g].op)
             THEN [mu EXCEPT ![gr[g].src].r = @ \ {g}]
             ELSE [mu EXCEPT ![gr[g].src].w = NoOne]
    /\ gr' = [gr EXCEPT ![g].pc = "done"]
    /\ UNCHANGED <<et, c, rt, now, written, touchOrder, run>>

GoStep(g) ==
    \/ GoLockSource(g)
    \/ GoRange(g)
    \/ GoLockDest(g)
    \/ GoUnlockDest(g)
    \/ GoReturn(g)

LockNext == \E g \in Goroutines : GoStep(g)

\* The Go scheduler runs every goroutine that can take a step.
LockSpec ==
    LockInit /\ [][LockNext]_vars /\ \A g \in Goroutines : WF_vars(GoStep(g))

------------------------------------------------------------------------------
\* Client calls, Purge and the sweeper at the level of their lock calls.
\* Goroutine g1 runs a transfer from a (to b or to a itself), Keys() or
\* Purge() on a; g2 runs Set on a or on b, Keys() on b, Purge() on a, or
\* nothing; the sweeper of a runs if a was built with timeInterval > 0.
\* A second Purge() runs beside Purge() and Keys() only.

ConcCap == 2

Sweeper == "sw"
Procs == Goroutines \cup {Sweeper}

\* The key and value g2 sets: a key that a does not hold.
ConcKey == ConcCap + 1
ConcItem == [key |-> ConcKey, value |-> 1, expireAt |-> NilTime]

\* What a can start as: capacity ConcCap, any entries of the keys
\* 1..ConcCap, each without expiration or expired at MaxTime.
ConcCaches(p, tmIvl) ==
    UNION {
      {[SrcCache(p, f, ConcCap) EXCEPT !.timeInterval = tmIvl]
         : f \in [S -> [value : {1}, expireAt : {NilTime, MaxTime - 1}]]}
      : S \in SUBSET (1..ConcCap)}

\* The read lock Count() takes inside Keys() is a second hold by the same
\* goroutine.
CountHold(g) == IF g = "g1" THEN "g1.Count" ELSE "g2.Count"

SweeperIgnoresStop(pc) == pc

\* expireKeys on "case <-c.stopCh": return.
SweeperAfterStop(pc) == "returned"

ConcInit ==
    /\ et \in EvictTypes
    /\ c = Construct(et, 0, 0)
    /\ now = MaxTime
    /\ written = [k \in Keys |-> NoWrite]
    /\ touchOrder = <<>>
    /\ run = BrokenRun
    /\ \E tmIvl \in {0, 1} :
          /\ et # "manual" => tmIvl = 0
          /\ rt = Runtime(et, tmIvl)
          /\ \E a \in ConcCaches(et, tmIvl), n \in {0, ConcCap} :
                cs = [x \in CacheIds |->
                        IF x = "a" THEN a ELSE Construct(et, n, 0)]
    /\ mu = [x \in CacheIds |-> Unlocked]
    /\ \E p1 \in {[op |-> "TransferTo", dst |-> "b"], [op |-> "TransferTo", dst |-> "a"],
                  [op |-> "CopyTo", dst |-> "b"], [op |-> "CopyTo", dst |-> "a"],
                  [op |-> "Keys", dst |-> "a"], [op |-> "Purge", dst |-> "a"]} :
       \E p2 \in {[op |-> "Set", src |-> "a"], [op |-> "Set", src |-> "b"],
                  [op |-> "Keys", src |-> "b"], [op |-> "Purge", src |-> "a"],
                  [op |-> "none", src |-> "b"]} :
          /\ p2.op = "Purge" => p1.op \in {"Purge", "Keys"}
          /\ gr = [g \in Procs |->
                     CASE g = "g1" ->
                            [IdleGo EXCEPT !.op = p1.op, !.src = "a", !.dst = p1.dst,
                                           !.pc = "call"]
                       [] g = "g2" ->
                            [IdleGo EXCEPT !.op = p2.op, !.src = p2.src, !.dst = p2.src,
                                           !.item = ConcItem,
                                           !.pc = IF p2.op = "none" THEN "done" ELSE "call"]
                       [] OTHER ->
                            [IdleGo EXCEPT !.op = "expireKeys",
                                           !.pc = IF rt.sweeper = "running"
                                                  THEN "select" ELSE "off"]]

\* No panic has ended the program.
Alive == rt.halt = "none"

\* A call that writes under the exclusive lock for its whole length: Set,
\* and Purge of LRUCache and LFUCache.
LockedWrite(g) ==
    \/ gr[g].op = "Set"
    \/ gr[g].op = "Purge" /\ et # "manual"

\* "c.mu.Lock()" is called: the caller waits for the lock, and from now on
\* holds back new readers.  MCache.Set returns before it when size is 0.
WriteCall(g) ==
    /\ Alive
    /\ LockedWrite(g)
    /\ gr[g].pc = "call"
    /\ IF gr[g].op = "Set" /\ et = "manual" /\ cs[gr[g].src].size = 0
       THEN /\ gr' = [gr EXCEPT ![g].pc = "done"]
            /\ mu' = mu
       ELSE /\ gr' = [gr EXCEPT ![g].pc = "wait"]
            /\ mu' = [mu EXCEPT ![gr[g].src].q = @ \cup {g}]
    /\ UNCHANGED <<et, c, rt, now, written, touchOrder, run, cs>>

\* The lock is granted and the body of the call runs: Set(k, v), or the
\* fresh map and list of Purge.  A Set on the nil map that MCache.Purge left
\* panics.
WriteAcquire(g) ==
    /\ Alive
    /\ LockedWrite(g)
    /\ gr[g].pc = "wait"
    /\ CanLock(gr[g].src)
    /\ mu' = [mu EXCEPT ![gr[g].src].w = g, ![gr[g].src].q = @ \ {g}]
    /\ gr' = [gr EXCEPT ![g].pc = "unlock"]
    /\ IF gr[g].op = "Purge"
       THEN /\ cs' = [cs EXCEPT ![gr[g].src] = PurgeOutcome(et, cs[gr[g].src], rt).c]
            /\ rt' = rt
       ELSE IF et = "manual" /\ gr[g].src = "a" /\ rt.mNil
            THEN /\ rt' = [rt EXCEPT !.halt = "panic"]
                 /\ cs' = cs
            ELSE /\ \E o \in SetOutcomes(et, cs[gr[g].src], gr[g].item.key,
                                         gr[g].item.value, now) :
                       cs' = [cs EXCEPT ![gr[g].src] = o.c]
                 /\ rt' = rt
    /\ UNCHANGED <<et, c, now, written, touchOrder, run>>

\* The deferred "c.mu.Unlock()".
WriteUnlock(g) ==
    /\ Alive
    /\ LockedWrite(g)
    /\ gr[g].pc = "unlock"
    /\ mu' = [mu EXCEPT ![gr[g].src].w = NoOne]
    /\ gr' = [gr EXCEPT ![g].pc = "done"]
    /\ UNCHANGED <<et, c, rt, now, written, touchOrder, run, cs>>

\* Keys(): "c.mu.RLock()".  LRUCache.Keys and LFUCache.Keys go on to call
\* c.Count() for the capacity of the slice; MCache.Keys goes to its loop.
KeysRLock(g) ==
    /\ Alive
    /\ gr[g].op = "Keys"
    /\ gr[g].pc = "call"
    /\ CanRLock(gr[g].src)
    /\ mu' = [mu EXCEPT ![gr[g].src].r = @ \cup {g}]
    /\ gr' = [gr EXCEPT ![g].pc = IF et = "manual" THEN "keysRange" ELSE "count"]
    /\ UNCHANGED <<et, c, rt, now, written, touchOrder, run, cs>>

\* Count() called by Keys(): "c.mu.RLock()" again.
CountRLock(g) ==
    /\ Alive
    /\ gr[g].op = "Keys"
    /\ gr[g].pc = "count"
    /\ CanRLock(gr[g].src)
    /\ mu' = [mu EXCEPT ![gr[g].src].r = @ \cup {CountHold(g)}]
    /\ gr' = [gr EXCEPT ![g].pc = "counting"]
    /\ UNCHANGED <<et, c, rt, now, written, touchOrder, run, cs>>

\* Count() returns: its deferred "c.mu.RUnlock()".
CountRUnlock(g) ==
    /\ Alive
    /\ gr[g].op = "Keys"
    /\ gr[g].pc = "counting"
    /\ mu' = [mu EXCEPT ![gr[g].src].r = @ \ {CountHold(g)}]
    /\ gr' = [gr EXCEPT ![g].pc = "keysRange"]
    /\ UNCHANGED <<et, c, rt, now, written, touchOrder, run, cs>>

\* Keys() collects the keys and returns: its deferred "c.mu.RUnlock()".
KeysRUnlock(g) ==
    /\ Alive
    /\ gr[g].op = "Keys"
    /\ gr[g].pc = "keysRange"
    /\ mu' = [mu EXCEPT ![gr[g].src].r = @ \ {g}]
    /\ gr' = [gr EXCEPT ![g].pc = "done"]
    /\ UNCHANGED <<et, c, rt, now, written, touchOrder, run, cs>>

\* MCache.Purge, "c.stopCh <- struct{}{}" when timeInterval > 0: the send
\* panics on a closed channel and otherwise completes when the sweeper
\* receives at its select, upon which the sweeper returns.  No lock is taken.
PurgeSend(g) ==
    /\ Alive
    /\ gr[g].op = "Purge"
    /\ et = "manual"
    /\ gr[g].pc = "call"
    /\ IF cs[gr[g].src].timeInterval > 0
       THEN IF rt.stopCh = "closed"
            THEN /\ rt' = [rt EXCEPT !.halt = "panic"]
                 /\ gr' = gr
            ELSE /\ gr[Sweeper].pc = "select"
                 /\ rt' = [rt EXCEPT !.sent = @ + 1,
                                     !.sweeper = SweeperAfterStop(rt.sweeper)]
                 /\ gr' = [gr EXCEPT ![g].pc = "close",
                                     ![Sweeper].pc = SweeperAfterStop(gr[Sweeper].pc)]
       ELSE /\ rt' = rt
            /\ gr' = [gr EXCEPT ![g].pc = "nil"]
    /\ UNCHANGED <<et, c, now, written, touchOrder, run, cs, mu>>

\* "close(c.stopCh)"
PurgeClose(g) ==
    /\ Alive
    /\ gr[g].op = "Purge"
    /\ gr[g].pc = "close"
    /\ rt' = [rt EXCEPT !.stopCh = "closed"]
    /\ gr' = [gr EXCEPT ![g].pc = "nil"]
    /\ UNCHANGED <<et, c, now, written, touchOrder, run, cs, mu>>

\* "c.m = nil", and Purge returns.
PurgeNil(g) ==
    /\ Alive
    /\ gr[g].op = "Purge"
    /\ gr[g].pc = "nil"
    /\ cs' = [cs EXCEPT ![gr[g].src].m = EmptyMap]
    /\ rt' = [rt EXCEPT !.mNil = TRUE]
    /\ gr' = [gr EXCEPT ![g].pc = "done"]
    /\ UNCHANGED <<et, c, now, written, touchOrder, run, mu>>

\* expireKeys, "case <-ticker.C": "c.mu.Lock()" is called.
SweepTick ==
    /\ Alive
    /\ gr[Sweeper].pc = "select"
    /\ mu' = [mu EXCEPT !["a"].q = @ \cup {Sweeper}]
    /\ gr' = [gr EXCEPT ![Sweeper].pc = "wait"]
    /\ UNCHANGED <<et, c, rt, now, written, touchOrder, run, cs>>

\* The lock is granted and the loop deletes the expired entries.
SweepAcquire ==
    /\ Alive
    /\ gr[Sweeper].pc = "wait"
    /\ CanLock("a")
    /\ mu' = [mu EXCEPT !["a"].w = Sweeper, !["a"].q = @ \ {Sweeper}]
    /\ cs' = [cs EXCEPT !["a"] = ManualSweep(cs["a"], now)]
    /\ gr' = [gr EXCEPT ![Sweeper].pc = "sweep"]
    /\ UNCHANGED <<et, c, rt, now, written, touchOrder, run>>

\* "c.mu.Unlock()", back to the select.
SweepUnlock ==
    /\ Alive
    /\ gr[Sweeper].pc = "sweep"
    /\ mu' = [mu EXCEPT !["a"].w = NoOne]
    /\ gr' = [gr EXCEPT ![Sweeper].pc = "select"]
    /\ UNCHANGED <<et, c, rt, now, written, touchOrder, run, cs>>

SweeperStep == SweepTick \/ SweepAcquire \/ SweepUnlock

ClientStep(g) ==
    \/ GoStep(g)
    \/ WriteCall(g)
    \/ WriteAcquire(g)
    \/ WriteUnlock(g)
    \/ KeysRLock(g)
    \/ CountRLock(g)
    \/ CountRUnlock(g)
    \/ KeysRUnlock(g)
    \/ PurgeSend(g)
    \/ PurgeClose(g)
    \/ PurgeNil(g)

ConcNext ==
    \/ \E g \in Goroutines : ClientStep(g)
    \/ SweeperStep

\* The Go scheduler runs every goroutine that can take a step; a goroutine
\* waiting for a mutex or at a select that is ready again and again gets
\* its turn (sync.RWMutex hands the lock over to waiters, select picks among
\* its ready cases at random).
ConcSpec ==
    /\ ConcInit
    /\ [][ConcNext]_vars
    /\ \A g \in Goroutines : SF_vars(ClientStep(g))
    /\ WF_vars(SweeperStep)

------------------------------------------------------------------------------
\* Properties.

\* What Get(k) returns in the current state.
GetRet(k) == GetOutcome(et, c, k, now).ret

\* Every outcome of inserting a key into the current state: Set,
\* SetWithTimeout, NotFoundSet and NotFoundSetWithTimeout of k.
InsertOutcomes(k) ==
    UNION {SetOutcomes(et, c, k, v, now) \cup NotFoundSetOutcomes(et, c, k, v, now)
            \cup UNION {SetWithTimeoutOutcomes(et, c, k, v, timeout, now)
                          \cup NotFoundSetWithTimeoutOutcomes(et, c, k, v, timeout, now)
                        : timeout \in Ttls}
           : v \in Vals}

\* The run so far is exactly size + 1 Set calls of distinct keys.
FullInsertRun ==
    /\ run.ok
    /\ RunGets(run) = {}
    /\ Len(run.seq) = c.size + 1

\* C1: a cache built with capacity N >= 1 never stores more than N entries,
\* whatever sequence of Set, SetWithTimeout, NotFoundSet*, Get, Delete,
\* sweeper ticks and transfers into it was executed.
C1_CapacityInvariant == c.size >= 1 => CacheLen(c) <= c.size

\* C1 witness: a full cache of the largest capacity after size + 1 inserts.
C1_Witness ==
    /\ c.size = MaxCap
    /\ FullInsertRun
    /\ CacheLen(c) = c.size

\* C2 (as claimed): with capacity 0 the cache stays empty and NotFoundSet*
\* returns false, for every policy.
C2_ZeroCapacityNoOp ==
    c.size = 0 =>
       /\ CacheLen(c) = 0
       /\ \A k \in Keys, v \in Vals, timeout \in Ttls :
             /\ \A o \in NotFoundSetOutcomes(et, c, k, v, now) : ~o.ret.ok
             /\ \A o \in NotFoundSetWithTimeoutOutcomes(et, c, k, v, timeout, now) :
                   ~o.ret.ok

C4_LRUEvictsFirstInserted ==
    (et = "lru" /\ c.size >= 1 /\ FullInsertRun) =>
       /\ DOMAIN c.m = {run.seq[i].key : i \in 2..Len(run.seq)}
       /\ GetRet(run.seq[1].key) = RetGet(FALSE, ZeroV)
       /\ \A i \in 2..Len(run.seq) :
             GetRet(run.seq[i].key) = RetGet(TRUE, run.seq[i].value)

\* C4 witness: an LRU cache of the largest capacity after such a run.
C4_Witness == et = "lru" /\ c.size = MaxCap /\ FullInsertRun

\* The run so far is Set(a), Set(b), Get(a), Set(x) for distinct a, b, x.
TouchScenario ==
    /\ run.ok
    /\ Len(run.seq) = 4
    /\ run.seq[1].op = "Set" /\ run.seq[2].op = "Set"
    /\ run.seq[3].op = "Get" /\ run.seq[4].op = "Set"
    /\ run.seq[3].key = run.seq[1].key

\* C5: in an LRU cache, whenever inserting a new key evicts, the victim is
\* the stored key touched least recently; with capacity 2, after Set(a),
\* Set(b), Get(a), Set(x) the key b is gone and a is kept.
C5_LRUEvictsLeastRecentlyTouched ==
    et = "lru" =>
       /\ \A k \in Keys \ DOMAIN c.m :
             \A o \in InsertOutcomes(k) :
                o.evicted # {} => o.evicted = {touchOrder[Len(touchOrder)]}
       /\ (c.size = 2 /\ TouchScenario) =>
             /\ run.seq[2].key \notin DOMAIN c.m
             /\ run.seq[1].key \in DOMAIN c.m

\* C5 witness: the scenario has run on an LRU cache of capacity 2.
C5_Witness == et = "lru" /\ c.size = 2 /\ TouchScenario

\* The frequency stored for key k of an LFU cache.
FreqOf(cc, k) == ItemOf(cc, k).freq

\* C6 (as claimed): in an LFU cache, whenever inserting a new key evicts,
\* the victim has the lowest frequency among the stored keys; with capacity
\* 2, after Set(a), Set(b), Get(a), Set(x) the key b is gone and a is kept.
C6_LFUEvictsLowestFrequency ==
    et = "lfu" =>
       /\ \A k \in Keys \ DOMAIN c.m :
             \A o \in InsertOutcomes(k) :
                \A victim \in o.evicted :
                   \A x \in DOMAIN c.m : FreqOf(c, victim) <= FreqOf(c, x)
       /\ (c.size = 2 /\ TouchScenario) =>
             /\ run.seq[2].key \notin DOMAIN c.m
             /\ run.seq[1].key \in DOMAIN c.m

\* C7: in an LFU cache of capacity N >= 1, after N + 1 Set calls of distinct
\* keys and nothing else, the first key is gone and each of the other N keys
\* is retrievable with its value.
C7_LFUEvictsFirstInserted ==
    (et = "lfu" /\ c.size >= 1 /\ FullInsertRun) =>
       /\ run.seq[1].key \notin DOMAIN c.m
       /\ GetRet(run.seq[1].key) = RetGet(FALSE, ZeroV)
       /\ \A i \in 2..Len(run.seq) :
             GetRet(run.seq[i].key) = RetGet(TRUE, run.seq[i].value)

\* C7 witness: an LFU cache of the largest capacity after such a run.
C7_Witness == et = "lfu" /\ c.size = MaxCap /\ FullInsertRun

C9_NonPositiveTtlIsSet ==
    \A k \in Keys, v \in Vals, timeout \in {x \in Ttls : x <= 0} :
       /\ SetWithTimeoutOutcomes(et, c, k, v, timeout, now)
             = SetOutcomes(et, c, k, v, now)
       /\ NotFoundSetWithTimeoutOutcomes(et, c, k, v, timeout, now)
             = NotFoundSetOutcomes(et, c, k, v, now)
       /\ \A o \in SetWithTimeoutOutcomes(et, c, k, v, timeout, now) :
             k \in DOMAIN o.c.m => Stored(et, o.c, k).expireAt = NilTime
       /\ \A o \in NotFoundSetWithTimeoutOutcomes(et, c, k, v, timeout, now) :
             o.ret.ok => Stored(et, o.c, k).expireAt = NilTime

\* C9 witness: on a full cache, SetWithTimeout with a ttl <= 0 overwrites an
\* entry that had an expiration, and NotFoundSetWithTimeout with a ttl <= 0
\* inserts a key and evicts.
C9_Witness ==
    /\ c.size >= 1
    /\ CacheLen(c) = c.size
    /\ \E k \in DOMAIN c.m : \E o \in SetWithTimeoutOutcomes(et, c, k, 1, 0, now) :
          /\ Stored(et, c, k).expireAt # NilTime
          /\ Stored(et, o.c, k).expireAt = NilTime
    /\ \E k \in Keys \ DOMAIN c.m :
          \E o \in NotFoundSetWithTimeoutOutcomes(et, c, k, 1, 0, now) :
          o.ret.ok /\ o.evicted # {}

\* What the claim says of one outcome o of NotFoundSet(k, v) or
\* NotFoundSetWithTimeout(k, v, ttl) from the current state.
NotFoundSetContract(k, v, o) ==
    IF k \in DOMAIN c.m
    THEN o.ret = RetBool(FALSE) /\ o.c = c /\ o.evicted = {}
    ELSE /\ o.ret = RetBool(TRUE)
         /\ k \in DOMAIN o.c.m
         /\ Stored(et, o.c, k).value = v

\* C10 (as claimed): NotFoundSet* returns true and stores v exactly when k
\* is not stored; when k is stored it returns false and changes nothing.
C10_Original ==
    \A k \in Keys, v \in Vals, timeout \in Ttls :
       /\ \A o \in NotFoundSetOutcomes(et, c, k, v, now) :
             NotFoundSetContract(k, v, o)
       /\ \A o \in NotFoundSetWithTimeoutOutcomes(et, c, k, v, timeout, now) :
             NotFoundSetContract(k, v, o)

\* C10 (amended): the same for a cache of capacity N >= 1.
C10_NotFoundSet ==
    c.size >= 1 =>
       \A k \in Keys, v \in Vals, timeout \in Ttls :
          /\ \A o \in NotFoundSetOutcomes(et, c, k, v, now) :
                NotFoundSetContract(k, v, o)
          /\ \A o \in NotFoundSetWithTimeoutOutcomes(et, c, k, v, timeout, now) :
                NotFoundSetContract(k, v, o)

\* C10 witness: on a full cache of capacity N >= 1, NotFoundSet of a stored
\* key that has an expiration returns false, and NotFoundSet of a key that is
\* not stored returns true and evicts.
C10_Witness ==
    /\ c.size >= 1
    /\ CacheLen(c) = c.size
    /\ \E k \in DOMAIN c.m : \E o \in NotFoundSetOutcomes(et, c, k, 1, now) :
          Stored(et, c, k).expireAt # NilTime /\ ~o.ret.ok
    /\ \E k \in Keys \ DOMAIN c.m : \E o \in NotFoundSetOutcomes(et, c, k, 1, now) :
          o.ret.ok /\ o.evicted # {}

\* Whether the entry stored for key k has an expiration in the past.
Expired(p, cc, k, t) ==
    Stored(p, cc, k).expireAt # NilTime /\ Before(Stored(p, cc, k).expireAt, t)

\* C11 (as claimed): NotFoundSet(k, v) and NotFoundSetWithTimeout(k, v, ttl)
\* on a key whose stored entry has expired return true, and a following
\* Get(k) returns (v, true).
C11_ExpiredCountsAsAbsent ==
    \A k \in DOMAIN c.m :
       Expired(et, c, k, now) =>
          \A v \in Vals, timeout \in Ttls :
             \A o \in NotFoundSetOutcomes(et, c, k, v, now)
                      \cup NotFoundSetWithTimeoutOutcomes(et, c, k, v, timeout, now) :
                /\ o.ret = RetBool(TRUE)
                /\ GetOutcome(et, o.c, k, now).ret = RetGet(TRUE, v)

\* The cache c without key k: the map without it, the ordering list without
\* its node and every other node in place.
Without(k) ==
    [c EXCEPT !.m = [x \in (DOMAIN c.m) \ {k} |-> c.m[x]],
              !.evictionList = SelectSeq(c.evictionList, LAMBDA it : it.key # k)]

\* C12: Delete(k) on a stored key removes k and its ordering node, so that
\* Get(k) finds nothing, and every other key keeps its value, expiration,
\* frequency and place in the eviction order; Delete(k) on an absent key
\* changes nothing, and a second Delete(k) changes nothing.
C12_Delete ==
    \A k \in Keys :
       LET d == DeleteOutcome(et, c, k) IN
       /\ d = Without(k)
       /\ k \notin DOMAIN c.m => d = c
       /\ GetOutcome(et, d, k, now).ret = RetGet(FALSE, ZeroV)
       /\ \A x \in (DOMAIN c.m) \ {k} :
             x \in DOMAIN d.m /\ Stored(et, d, x) = Stored(et, c, x)
       /\ DeleteOutcome(et, d, k) = d

\* C12 witness: a full cache of the largest capacity holding an entry with an
\* expiration, from which Delete of a stored key removes an entry and Delete
\* of an absent key removes none.
C12_Witness ==
    /\ CacheLen(c) = MaxCap
    /\ \E k \in DOMAIN c.m : Stored(et, c, k).expireAt # NilTime
    /\ \E k \in DOMAIN c.m : CacheLen(DeleteOutcome(et, c, k)) = MaxCap - 1
    /\ \E k \in Keys \ DOMAIN c.m : CacheLen(DeleteOutcome(et, c, k)) = MaxCap

\* The source caches the transfer properties range over: every cache of the
\* policy of c that holds at most XferMax entries.
XferSources == SrcCachesUpTo(et, now, XferMax)

\* The keys of cache cc whose entry is unexpired at time t.
UnexpiredKeys(p, cc, t) == {k \in DOMAIN cc.m : ~Expired(p, cc, k, t)}

\* The capacity of c is large enough to hold its entries and those of src.
HoldsAll(src) == c.size >= Cardinality((DOMAIN c.m) \cup (DOMAIN src.m))

\* C13 (as claimed): after src.TransferTo(c), with the capacity of c large
\* enough to hold everything, every key that was stored and unexpired in src
\* is retrievable from c with the same value, and Get on src finds none of
\* them.
C13_TransferMovesLiveEntries ==
    \A src \in XferSources :
       HoldsAll(src) =>
          \A x \in TransferToOutcomes(et, src, c, now) :
             \A k \in UnexpiredKeys(et, src, now) :
                /\ GetOutcome(et, x.dst, k, now).ret
                      = RetGet(TRUE, Stored(et, src, k).value)
                /\ GetOutcome(et, x.src, k, now).ret = RetGet(FALSE, ZeroV)

\* C14 (as claimed): when src.TransferTo(c) returns the source is empty, its
\* map and its ordering list hold nothing, also when the source held expired
\* entries before the call.
C14_TransferEmptiesSource ==
    \A src \in XferSources :
       \A x \in TransferToOutcomes(et, src, c, now) :
          Len0(x.src.m) = 0 /\ x.src.evictionList = <<>>

\* C15 (as claimed): TransferTo and CopyTo write into c only the source
\* entries that are unexpired at the call: an expired source entry is never
\* stored in c, and a source holding only expired entries inserts nothing
\* and evicts nothing.
C15_OnlyLiveEntriesHandedOver ==
    \A src \in XferSources :
       \A x \in TransferToOutcomes(et, src, c, now)
                  \cup CopyToOutcomes(et, src, c, now) :
          /\ \A k \in (DOMAIN src.m) \cap (DOMAIN x.dst.m) :
                Expired(et, src, k, now) =>
                   k \in DOMAIN c.m /\ Stored(et, x.dst, k) = Stored(et, c, k)
          /\ UnexpiredKeys(et, src, now) = {} => (x.dst = c /\ x.evicted = {})

\* C16 (as claimed): src.CopyTo(c) leaves the source as it was, and with the
\* capacity of c large enough to hold everything, every unexpired key of
\* src is retrievable from c with the same value.
C16_CopyKeepsSource ==
    \A src \in XferSources :
       \A x \in CopyToOutcomes(et, src, c, now) :
          /\ x.src = src
          /\ HoldsAll(src) =>
                \A k \in UnexpiredKeys(et, src, now) :
                   GetOutcome(et, x.dst, k, now).ret
                      = RetGet(TRUE, Stored(et, src, k).value)

\* C17 (as claimed): an unexpired source entry with an expiration has the
\* same expiration in c after TransferTo or CopyTo, so that Get on c finds
\* nothing once that instant has passed.
C17_TransferKeepsTtl ==
    \A src \in XferSources :
       \A x \in TransferToOutcomes(et, src, c, now)
                  \cup CopyToOutcomes(et, src, c, now) :
          \A k \in UnexpiredKeys(et, src, now) \cap DOMAIN x.dst.m :
             Stored(et, src, k).expireAt # NilTime =>
                /\ Stored(et, x.dst, k).expireAt = Stored(et, src, k).expireAt
                /\ GetOutcome(et, x.dst, k, Stored(et, src, k).expireAt + 1).ret
                      = RetGet(FALSE, ZeroV)

\* C18 (as claimed): a.TransferTo(b) or a.CopyTo(b) running concurrently
\* with b.TransferTo(a) or b.CopyTo(a) never deadlocks: under fair
\* scheduling both calls eventually return.
C18_BothTransfersReturn == <>(\A g \in Goroutines : gr[g].pc = "done")

\* C19 (as claimed): Keys() returns exactly the stored keys whose entry is
\* unexpired at the call, each once; a key whose TTL has elapsed but which is
\* still stored is not returned.
C19_KeysAreUnexpired ==
    \A ks \in KeysOutcomes(et, c, now) :
       /\ Range(ks) = UnexpiredKeys(et, c, now)
       /\ Len(ks) = Cardinality(UnexpiredKeys(et, c, now))

\* C20 (as claimed): Count() returns the number of stored entries that are
\* unexpired at the call and leaves the cache as it was.
C20_CountIsUnexpired ==
    /\ CountOutcome(et, c, now).ret = Cardinality(UnexpiredKeys(et, c, now))
    /\ CountOutcome(et, c, now).c = c

\* C21: after Purge() returns the cache holds no entries: Get reports not
\* found for every key, the stored-entry count is 0 and, for LRU and LFU,
\* the ordering list is empty.
C21_PurgeEmpties ==
    (rt.halt = "none" /\ PurgeOutcome(et, c, rt).rt.halt = "none") =>
       LET po == PurgeOutcome(et, c, rt) IN
          /\ \A k \in Keys : GetOutcome(et, po.c, k, now).ret = RetGet(FALSE, ZeroV)
          /\ CountOutcome(et, po.c, now).ret = 0
          /\ CacheLen(po.c) = 0
          /\ po.c.evictionList = <<>>

C21_Witness ==
    /\ rt.halt = "none"
    /\ PurgeOutcome(et, c, rt).rt.halt = "none"
    /\ et = "lru"
    /\ Cardinality(DOMAIN c.m) = MaxCap
    /\ \E k \in DOMAIN c.m : GetRet(k).ok

\* C22 (as claimed): Purge() called a second time, or on a cache whose
\* sweeper was never started, neither panics nor blocks for ever, for every
\* policy and every sweep interval.
C22_PurgeAgain ==
    rt.halt = "none" => PurgeOutcome(et, c, rt).rt.halt = "none"

\* The kinds a CacheBuilder can be configured with: the three policies and
\* a kind that is none of them.
PolicyKinds == EvictTypes \cup {"other"}

\* C23 (as claimed): Build() returns a working cache of the configured
\* capacity for each of manual, lru and lfu, and panics exactly when the
\* policy kind is none of these.
C23_BuildEveryPolicy ==
    \A p \in PolicyKinds :
       LET b == Build(p, c.size, c.timeInterval) IN
          /\ b.panic <=> p \notin EvictTypes
          /\ ~b.panic => b.cache.size = c.size /\ CacheLen(b.cache) = 0

\* Some stored entry of c has its expiration before now.
ExpiredStored == \E k \in DOMAIN c.m : Expired(et, c, k, now)

C25_InsertEvictsExactlyOne ==
    (rt.halt = "none" /\ ~rt.mNil /\ c.size >= 1) =>
       \A k \in Keys \ DOMAIN c.m :
          \A o \in InsertOutcomes(k) :
             IF CacheLen(c) = c.size
             THEN /\ Cardinality((DOMAIN c.m) \ (DOMAIN o.c.m)) = 1
                  /\ CacheLen(o.c) = c.size
             ELSE (DOMAIN c.m) \subseteq (DOMAIN o.c.m)

\* Every outcome of Set(k, v) and SetWithTimeout(k, v, timeout) in the
\* current state.
OverwriteOutcomes(k) ==
    UNION {SetOutcomes(et, c, k, v, now)
            \cup UNION {SetWithTimeoutOutcomes(et, c, k, v, timeout, now)
                        : timeout \in Ttls}
           : v \in Vals}

\* C26 (as claimed): Set or SetWithTimeout on a key that is already stored
\* never evicts: the set of stored keys is the same before and after, even
\* when the cache is at capacity.
C26_OverwriteNeverEvicts ==
    \A k \in DOMAIN c.m :
       \A o \in OverwriteOutcomes(k) : DOMAIN o.c.m = DOMAIN c.m

\* The times at which a Get can follow a write made now.
LaterTimes == now..(MaxTime + MaxTtl + 1)

\* C27: overwriting a key replaces its expiration together with its value:
\* Set(k, v) on a stored key leaves k without expiration, so that it never
\* expires afterwards; SetWithTimeout(k, v, d) with d > 0 on a stored key
\* sets its expiration to now + d.
C27_OverwriteReplacesExpiration ==
    \A k \in DOMAIN c.m : \A v \in Vals :
       /\ \A o \in SetOutcomes(et, c, k, v, now) :
             /\ k \in DOMAIN o.c.m
             /\ Stored(et, o.c, k) = [value |-> v, expireAt |-> NilTime]
             /\ \A t \in LaterTimes :
                   GetOutcome(et, o.c, k, t).ret = RetGet(TRUE, v)
       /\ \A d \in 1..MaxTtl :
             \A o \in SetWithTimeoutOutcomes(et, c, k, v, d, now) :
                /\ k \in DOMAIN o.c.m
                /\ Stored(et, o.c, k) = [value |-> v, expireAt |-> now + d]
                /\ GetOutcome(et, o.c, k, now + d).ret = RetGet(TRUE, v)
                /\ GetOutcome(et, o.c, k, now + d + 1).ret = RetGet(FALSE, ZeroV)

C27_Witness ==
    \E k \in DOMAIN c.m :
       /\ Expired(et, c, k, now)
       /\ Stored(et, c, k).expireAt + MaxTtl < now + 1
       /\ \E o \in SetOutcomes(et, c, k, 1, now) :
             Stored(et, o.c, k).expireAt = NilTime
       /\ \E o \in SetWithTimeoutOutcomes(et, c, k, 1, 1, now) :
             Stored(et, o.c, k).expireAt = now + 1

\* C28: Get(k) on a stored entry whose TTL has elapsed returns (zero,
\* false) and removes k from the map and from the ordering list, the
\* stored-entry count going down by one; Get(k) on an absent key leaves the
\* state unchanged; Get(k) on a live key of the Manual policy leaves the
\* state unchanged.
C28_GetRemovesExpired ==
    \A k \in Keys :
       LET o == GetOutcome(et, c, k, now) IN
          /\ (k \in DOMAIN c.m /\ Expired(et, c, k, now)) =>
                /\ o.ret = RetGet(FALSE, ZeroV)
                /\ o.c = Without(k)
                /\ k \notin DOMAIN o.c.m
                /\ \A i \in 1..Len(o.c.evictionList) : o.c.evictionList[i].key # k
                /\ CacheLen(o.c) = CacheLen(c) - 1
          /\ k \notin DOMAIN c.m => (o.ret = RetGet(FALSE, ZeroV) /\ o.c = c)
          /\ (et = "manual" /\ k \in DOMAIN c.m /\ ~Expired(et, c, k, now)) =>
                (o.ret = RetGet(TRUE, c.m[k].value) /\ o.c = c)

C28_Witness ==
    /\ et = "manual"
    /\ CacheLen(c) = MaxCap
    /\ \E k \in DOMAIN c.m :
          Expired(et, c, k, now) /\ CacheLen(GetOutcome(et, c, k, now).c) = MaxCap - 1
    /\ \E k \in DOMAIN c.m :
          ~Expired(et, c, k, now) /\ c.m[k].expireAt # NilTime
    /\ \E k \in Keys : k \notin DOMAIN c.m

\* C29: each sweeper tick removes, in one step under the exclusive lock,
\* every stored entry whose expiration is before the current time, and
\* nothing else.
C29_SweepRemovesExpiredOnly ==
    [][Sweep =>
         /\ DOMAIN c'.m = UnexpiredKeys(et, c, now)
         /\ \A k \in DOMAIN c'.m : c'.m[k] = c.m[k]
         /\ c' = [c EXCEPT !.m = c'.m]]_vars

C29_Witness ==
    /\ et = "manual"
    /\ rt.sweeper = "running"
    /\ rt.halt = "none"
    /\ \E k \in DOMAIN c.m : Expired(et, c, k, now)
    /\ \E k \in DOMAIN c.m : c.m[k].expireAt = now
    /\ ManualSweep(c, now) # c

\* C30: with a sweep interval > 0 and no Purge, every stored entry whose TTL
\* has elapsed is eventually removed from the map, even if it is never read
\* again, under fair scheduling of the sweeper.
C30_ExpiredEventuallyRemoved ==
    \A k \in Keys :
       (k \in DOMAIN c.m /\ Expired(et, c, k, now))
          ~> (~(k \in DOMAIN c.m /\ Expired(et, c, k, now)) \/ rt.sweeper # "running")

C30_Witness ==
    /\ et = "manual"
    /\ rt.sweeper = "running"
    /\ rt.halt = "none"
    /\ CacheLen(c) = MaxCap
    /\ \A k \in DOMAIN c.m : Expired(et, c, k, now)
    /\ CacheLen(ManualSweep(c, now)) = 0

\* The entry map and the ordering list of cc are in bijection: each map key
\* has exactly one list node carrying it, the map value is that node, and
\* no list node carries a key absent from the map.
MapListBijection(cc) ==
    /\ \A k \in DOMAIN cc.m :
          /\ Cardinality({i \in 1..Len(cc.evictionList) : cc.evictionList[i].key = k}) = 1
          /\ cc.m[k] = Handle(k)
    /\ \A i \in 1..Len(cc.evictionList) : cc.evictionList[i].key \in DOMAIN cc.m
    /\ Len(cc.evictionList) = Cardinality(DOMAIN cc.m)

\* C32: in LRU and LFU caches, in every state reachable between operations
\* the entry map and the ordering list are in bijection; so are the source
\* and the destination after the cache has been the source of a TransferTo
\* or CopyTo.
C32_MapListBijection ==
    et \in {"lru", "lfu"} =>
       /\ MapListBijection(c)
       /\ \A x \in TransferToOutcomes(et, c, Construct(et, 1, 0), now)
                     \cup CopyToOutcomes(et, c, Construct(et, 1, 0), now) :
             MapListBijection(x.src) /\ MapListBijection(x.dst)

C32_Witness ==
    /\ et = "lfu"
    /\ CacheLen(c) = MaxCap
    /\ \E k \in DOMAIN c.m : Expired(et, c, k, now) /\ FreqOf(c, k) = MaxFreq
    /\ \E x \in TransferToOutcomes(et, c, Construct(et, 1, 0), now) :
          CacheLen(x.src) = 1 /\ CacheLen(x.dst) = 1

\* C33 (as claimed): in an LFU cache, in every state reachable between
\* operations, the frequencies never increase from the front of the ordering
\* list to its back, so the back node has the minimum frequency.
C33_LFUListSorted ==
    et = "lfu" =>
       \A i, j \in 1..Len(c.evictionList) :
          i < j => c.evictionList[i].freq >= c.evictionList[j].freq

\* The calls the claim lists as leaving every frequency alone, applied to
\* the current state: NotFoundSet and NotFoundSetWithTimeout on a stored
\* key, Count, Keys (which leave the cache as it is) and being the source
\* of CopyTo.
FreqNeutralCaches ==
    {o.c : o \in UNION {NotFoundSetOutcomes(et, c, k, v, now)
                          \cup UNION {NotFoundSetWithTimeoutOutcomes(et, c, k, v, d, now)
                                      : d \in Ttls}
                        : <<k, v>> \in (DOMAIN c.m) \X Vals}}
      \cup {CountOutcome(et, c, now).c}
      \cup {x.src : x \in CopyToOutcomes(et, c, Construct(et, 1, 0), now)}

\* C34: in an LFU cache the frequency of a key is 1 right after its
\* insertion, goes up by exactly 1 on each successful Get and each
\* overwriting Set or SetWithTimeout of that key, is changed by nothing
\* else, and never decreases while the key stays stored.
C34_LFUFrequency ==
    /\ [](et = "lfu" =>
           /\ \A k \in Keys \ DOMAIN c.m :
                 \A o \in InsertOutcomes(k) :
                    /\ FreqOf(o.c, k) = 1
                    /\ \A x \in DOMAIN c.m \cap DOMAIN o.c.m :
                          FreqOf(o.c, x) = FreqOf(c, x)
           /\ \A k \in DOMAIN c.m :
                 /\ GetOutcome(et, c, k, now).ret.ok =>
                       FreqOf(GetOutcome(et, c, k, now).c, k) = FreqOf(c, k) + 1
                 /\ \A o \in OverwriteOutcomes(k) : FreqOf(o.c, k) = FreqOf(c, k) + 1
                 /\ \A o \in OverwriteOutcomes(k) \cup {GetOutcome(et, c, k, now)} :
                       \A x \in (DOMAIN c.m \cap DOMAIN o.c.m) \ {k} :
                          FreqOf(o.c, x) = FreqOf(c, x)
           /\ \A cc \in FreqNeutralCaches :
                 /\ DOMAIN cc.m = DOMAIN c.m
                 /\ \A x \in DOMAIN c.m : FreqOf(cc, x) = FreqOf(c, x))
    /\ [][et = "lfu" =>
            \A k \in DOMAIN c.m \cap DOMAIN c'.m :
               FreqOf(c', k) \in {FreqOf(c, k), FreqOf(c, k) + 1}]_vars

C34_Witness ==
    /\ et = "lfu"
    /\ CacheLen(c) = MaxCap
    /\ \E k \in DOMAIN c.m :
          /\ FreqOf(c, k) = 1
          /\ GetOutcome(et, c, k, now).ret.ok
          /\ FreqOf(GetOutcome(et, c, k, now).c, k) = 2
          /\ \E o \in SetOutcomes(et, c, k, 1, now) : FreqOf(o.c, k) = 2
          /\ \E o \in NotFoundSetOutcomes(et, c, k, 1, now) : FreqOf(o.c, k) = 1
    /\ \E k \in DOMAIN c.m : FreqOf(c, k) = MaxFreq

\* C35 (as claimed): in the Manual policy, inserting a key that is not
\* stored at capacity while at least one stored entry is expired removes one
\* expired entry and no unexpired one: every entry that was live before the
\* insert is still stored afterwards.
C35_ManualEvictsExpiredOnly ==
    (et = "manual" /\ ~rt.mNil /\ c.size >= 1 /\ CacheLen(c) = c.size /\ ExpiredStored) =>
       \A k \in Keys \ DOMAIN c.m :
          \A o \in InsertOutcomes(k) :
             /\ Cardinality((DOMAIN c.m) \ (DOMAIN o.c.m)) = 1
             /\ \A x \in DOMAIN c.m :
                   ~Expired(et, c, x, now) => x \in DOMAIN o.c.m

\* Goroutine g calls Purge() on a cache whose sweeper runs, and no other
\* goroutine calls Purge().
OnePurge(g) ==
    /\ gr[g].op = "Purge"
    /\ et = "manual"
    /\ cs[gr[g].src].timeInterval > 0
    /\ \A h \in Goroutines \ {g} : gr[h].op # "Purge"

\* C31: on a cache whose sweeper is running, a single Purge() eventually
\* returns under fair scheduling, also when it arrives during a sweep or
\* while a client waits for the lock; it sends the stop signal exactly once;
\* and once it has returned the sweeper has received the signal and never
\* again takes the lock or deletes an entry.
C31_PurgeStopsSweeper ==
    /\ \A g \in Goroutines : OnePurge(g) ~> (gr[g].pc = "done")
    /\ [](\A g \in Goroutines :
            OnePurge(g) =>
               /\ rt.sent <= 1
               /\ gr[g].pc \in {"close", "nil", "done"} =>
                     /\ rt.sent = 1
                     /\ rt.sweeper = "returned"
                     /\ gr[Sweeper].pc = "returned"
                     /\ mu[gr[g].src].w # Sweeper
                     /\ Sweeper \notin mu[gr[g].src].q)
    /\ [][\A g \in Goroutines :
            (OnePurge(g) /\ gr[g].pc = "done") =>
               /\ gr'[Sweeper] = gr[Sweeper]
               /\ rt'.sent = rt.sent]_vars

C31_Witness ==
    /\ OnePurge("g1")
    /\ gr["g1"].pc = "done"
    /\ gr["g2"].op = "Set" /\ gr["g2"].src = "a" /\ gr["g2"].pc = "wait"
    /\ rt.sent = 1
    /\ gr[Sweeper].pc = "returned"
    /\ rt.mNil

\* The keys goroutine g, between two entries of its TransferTo, still has
\* to hand over.
ToHandOver(g) ==
    {k \in Range(gr[g].todo) :
        IF et = "manual" THEN cs[gr[g].dst].size > 0
        ELSE Unexpired(ItemAt(et, cs[gr[g].src], k), now)}

\* Goroutine g is between two entries of a TransferTo to another cache: the
\* destination holds an entry it has handed over, and more are to come.
MidTransfer(g) ==
    /\ gr[g].op = "TransferTo"
    /\ gr[g].dst # gr[g].src
    /\ gr[g].pc = "range"
    /\ (DOMAIN cs[gr[g].dst].m) \cap (1..ConcCap) # {}
    /\ ToHandOver(g) # {}

\* C36 (as claimed): TransferTo is atomic for concurrent observers: between
\* the transfer's first and last entry no other goroutine is inside an
\* operation on the destination, so no reader sees only part of the
\* transferred entries.
C36_TransferAtomic ==
    \A g \in Goroutines :
       MidTransfer(g) =>
          /\ mu[gr[g].dst].w \in {NoOne, g}
          /\ mu[gr[g].dst].r = {}

\* C37 (as claimed): on an LRU or LFU cache, Keys() running concurrently
\* with a writer on the same cache never deadlocks: under a lock where a
\* waiting writer holds back new readers, both calls eventually return.
C37_KeysAndWriterReturn ==
    (/\ et \in {"lru", "lfu"}
     /\ gr["g1"].op = "Keys"
     /\ gr["g2"].op = "Set"
     /\ gr["g2"].src = gr["g1"].src)
       ~> (gr["g1"].pc = "done" /\ gr["g2"].pc = "done")

\* C38 (as claimed): every write to a cache's entry map or ordering list,
\* by a public operation (Purge included) or by the sweeper, is made by a
\* goroutine that holds that cache's exclusive lock, and no goroutine holds
\* the shared lock meanwhile.
C38_WritesUnderExclusiveLock ==
    [][\A x \in CacheIds :
          cs'[x] # cs[x] =>
             /\ \E g \in Procs :
                   gr'[g] # gr[g] /\ (mu[x].w = g \/ mu'[x].w = g)
             /\ mu[x].r = {} /\ mu'[x].r = {}]_vars

\* C39 (as claimed): a transfer whose destination is the source itself,
\* c.TransferTo(c) or c.CopyTo(c), returns for every policy, and leaves the
\* unexpired keys of the cache retrievable.
C39_SelfTransferReturns ==
    \A g \in Goroutines :
       /\ (Transfers(g) /\ gr[g].dst = gr[g].src) ~> (gr[g].pc = "done")
       /\ []((Transfers(g) /\ gr[g].dst = gr[g].src /\ gr[g].pc = "done") =>
               \A k \in UnexpiredKeys(et, cs[gr[g].src], now) :
                  GetOutcome(et, cs[gr[g].src], k, now).ret.ok)

====
